---- MODULE Spec2Model ----
(***************************************************************************)
(* Model of verify_docs.py: one coroutine, verify_docs, driven by          *)
(* asyncio.run.  Every `await` is a suspension point: the call is issued   *)
(* (Await) and later completes with "ok" or with a raised exception        *)
(* (<Step>Done).  The control flow between the awaits (async with, try,    *)
(* except Exception, finally) is taken from the source line by line.       *)
(***************************************************************************)
EXTENDS Integers, Sequences, FiniteSets, TLC

\* number of times the program is run one after the other on the same disk
MaxRuns == 2

\* exceptions (all subclasses of Exception) a library call can raise; the
\* string is the detail that str(e) renders
Errors == {"TimeoutError", "Error"}

Outcomes == {"ok"} \cup Errors

\* the awaited calls of verify_docs, in source order
StepOrder == <<"start", "launch", "new_page", "goto", "wait_for_selector",
               "screenshot", "close">>

AwaitSteps == {StepOrder[i] : i \in 1..Len(StepOrder)}

Ord(s) == CHOOSE i \in 1..Len(StepOrder) : StepOrder[i] = s

VARIABLES
    run,        \* index of the current run of the program
    pc,         \* position of the coroutine in verify_docs
    awaiting,   \* TRUE while the coroutine is suspended in the call at pc
    calls,      \* per awaited call: how many times it was issued in this run
    result,     \* per awaited call: "none", "ok" or the exception it raised
    err,        \* the exception bound to `e` by the except clause, or "none"
    uncaught,   \* the exception propagating out of verify_docs, or "none"
    playwright, \* the async_playwright() context: "none", "active", "stopped"
    stdout,     \* lines printed by this run
    exitCode,   \* process exit status, -1 while the process runs
    fs,         \* the files on disk: path |-> run that wrote it last
    shots       \* the runs whose screenshot call wrote the file

vars == <<run, pc, awaiting, calls, result, err, uncaught, playwright,
          stdout, exitCode, fs, shots>>

\* print("Documentation page loaded successfully and screenshot taken.")
SuccessLine == <<"Documentation page loaded successfully and screenshot taken.">>

\* f"Error verifying documentation page: {e}"
ErrorLine(e) == <<"Error verifying documentation page: ", e>>

\* a path that changes from run to run (a versioned file name)
ScreenshotPathPerRun == IF run = 1 THEN "docs_screenshot.png"
                        ELSE "docs_screenshot_next.png"

\* page.screenshot(path="docs_screenshot.png")
ScreenshotPath == "docs_screenshot.png"

NoCalls == [s \in AwaitSteps |-> 0]
NoResults == [s \in AwaitSteps |-> "none"]

Init ==
    /\ run = 1
    /\ pc = "start"
    /\ awaiting = FALSE
    /\ calls = NoCalls
    /\ result = NoResults
    /\ err = "none"
    /\ uncaught = "none"
    /\ playwright = "none"
    /\ stdout = <<>>
    /\ exitCode = -1
    /\ fs = <<>>
    /\ shots = {}

\* `await <call>`: the call at pc is issued and the coroutine suspends
Await(s) ==
    /\ pc = s
    /\ ~awaiting
    /\ awaiting' = TRUE
    /\ calls' = [calls EXCEPT ![s] = @ + 1]
    /\ UNCHANGED <<run, pc, result, err, uncaught, playwright, stdout,
                   exitCode, fs, shots>>

\* async with async_playwright() as p: entering the context; a failure to
\* start the driver leaves verify_docs before any try block
StartDone ==
    /\ pc = "start"
    /\ awaiting
    /\ \E r \in Outcomes :
        /\ result' = [result EXCEPT !["start"] = r]
        /\ IF r = "ok"
           THEN /\ pc' = "launch"
                /\ playwright' = "active"
                /\ uncaught' = uncaught
           ELSE /\ pc' = "return"
                /\ playwright' = playwright
                /\ uncaught' = r
    /\ awaiting' = FALSE
    /\ UNCHANGED <<run, calls, err, stdout, exitCode, fs, shots>>

\* browser = await p.chromium.launch(): outside the try, so a failure goes
\* straight to the exit of the async with
LaunchDone ==
    /\ pc = "launch"
    /\ awaiting
    /\ \E r \in Outcomes :
        /\ result' = [result EXCEPT !["launch"] = r]
        /\ IF r = "ok"
           THEN /\ pc' = "new_page"
                /\ uncaught' = uncaught
           ELSE /\ pc' = "aexit"
                /\ uncaught' = r
    /\ awaiting' = FALSE
    /\ UNCHANGED <<run, calls, err, playwright, stdout, exitCode, fs, shots>>

\* page = await browser.new_page(): also outside the try
NewPageDone ==
    /\ pc = "new_page"
    /\ awaiting
    /\ \E r \in Outcomes :
        /\ result' = [result EXCEPT !["new_page"] = r]
        /\ IF r = "ok"
           THEN /\ pc' = "goto"
                /\ uncaught' = uncaught
           ELSE /\ pc' = "aexit"
                /\ uncaught' = r
    /\ awaiting' = FALSE
    /\ UNCHANGED <<run, calls, err, playwright, stdout, exitCode, fs, shots>>

\* a navigation that is tried again after a failure
GotoDoneRetrying ==
    /\ pc = "goto"
    /\ awaiting
    /\ \E r \in Outcomes :
        /\ result' = [result EXCEPT !["goto"] = r]
        /\ IF r = "ok"
           THEN /\ pc' = "wait_for_selector"
                /\ err' = err
           ELSE IF calls["goto"] < 2
           THEN /\ pc' = "goto"
                /\ err' = err
           ELSE /\ pc' = "except"
                /\ err' = r
    /\ awaiting' = FALSE
    /\ UNCHANGED <<run, calls, uncaught, playwright, stdout, exitCode, fs,
                   shots>>

\* await page.goto(...): first statement of the try
GotoDone ==
    /\ pc = "goto"
    /\ awaiting
    /\ \E r \in Outcomes :
        /\ result' = [result EXCEPT !["goto"] = r]
        /\ IF r = "ok"
           THEN /\ pc' = "wait_for_selector"
                /\ err' = err
           ELSE /\ pc' = "except"
                /\ err' = r
    /\ awaiting' = FALSE
    /\ UNCHANGED <<run, calls, uncaught, playwright, stdout, exitCode, fs,
                   shots>>

\* a wait whose failure is swallowed, so the screenshot is taken anyway
WaitDoneSwallowing ==
    /\ pc = "wait_for_selector"
    /\ awaiting
    /\ \E r \in Outcomes :
        /\ result' = [result EXCEPT !["wait_for_selector"] = r]
        /\ pc' = "screenshot"
        /\ err' = err
    /\ awaiting' = FALSE
    /\ UNCHANGED <<run, calls, uncaught, playwright, stdout, exitCode, fs,
                   shots>>

\* await page.wait_for_selector("h1", timeout=10000)
WaitDone ==
    /\ pc = "wait_for_selector"
    /\ awaiting
    /\ \E r \in Outcomes :
        /\ result' = [result EXCEPT !["wait_for_selector"] = r]
        /\ IF r = "ok"
           THEN /\ pc' = "screenshot"
                /\ err' = err
           ELSE /\ pc' = "except"
                /\ err' = r
    /\ awaiting' = FALSE
    /\ UNCHANGED <<run, calls, uncaught, playwright, stdout, exitCode, fs,
                   shots>>

\* a screenshot step that goes on to the cleanup without the print
ScreenshotDoneSilent ==
    /\ pc = "screenshot"
    /\ awaiting
    /\ \E r \in Outcomes :
        /\ result' = [result EXCEPT !["screenshot"] = r]
        /\ IF r = "ok"
           THEN /\ pc' = "close"
                /\ err' = err
                /\ fs' = [p \in DOMAIN fs \cup {ScreenshotPath} |->
                            IF p = ScreenshotPath THEN run ELSE fs[p]]
                /\ shots' = shots \cup {run}
           ELSE /\ pc' = "except"
                /\ err' = r
                /\ UNCHANGED <<fs, shots>>
    /\ awaiting' = FALSE
    /\ UNCHANGED <<run, calls, uncaught, playwright, stdout, exitCode>>

\* a screenshot step whose failure does not keep the success print from
\* running
ScreenshotDoneLenient ==
    /\ pc = "screenshot"
    /\ awaiting
    /\ \E r \in Outcomes :
        /\ result' = [result EXCEPT !["screenshot"] = r]
        /\ pc' = "print_ok"
        /\ err' = err
        /\ IF r = "ok"
           THEN /\ fs' = [p \in DOMAIN fs \cup {ScreenshotPath} |->
                            IF p = ScreenshotPath THEN run ELSE fs[p]]
                /\ shots' = shots \cup {run}
           ELSE UNCHANGED <<fs, shots>>
    /\ awaiting' = FALSE
    /\ UNCHANGED <<run, calls, uncaught, playwright, stdout, exitCode>>

\* await page.screenshot(path="docs_screenshot.png"): on success the file at
\* the path is created or replaced
ScreenshotDone ==
    /\ pc = "screenshot"
    /\ awaiting
    /\ \E r \in Outcomes :
        /\ result' = [result EXCEPT !["screenshot"] = r]
        /\ IF r = "ok"
           THEN /\ pc' = "print_ok"
                /\ err' = err
                /\ fs' = [p \in DOMAIN fs \cup {ScreenshotPath} |->
                            IF p = ScreenshotPath THEN run ELSE fs[p]]
                /\ shots' = shots \cup {run}
           ELSE /\ pc' = "except"
                /\ err' = r
                /\ UNCHANGED <<fs, shots>>
    /\ awaiting' = FALSE
    /\ UNCHANGED <<run, calls, uncaught, playwright, stdout, exitCode>>

\* print("Documentation page loaded successfully and screenshot taken."),
\* last statement of the try; the finally clause follows
PrintSuccess ==
    /\ pc = "print_ok"
    /\ stdout' = Append(stdout, SuccessLine)
    /\ pc' = "close"
    /\ UNCHANGED <<run, awaiting, calls, result, err, uncaught, playwright,
                   exitCode, fs, shots>>

\* a handler that releases the browser itself before the finally clause does
ExceptHandlerClosing ==
    /\ pc = "except"
    /\ stdout' = Append(stdout, ErrorLine(err))
    /\ calls' = [calls EXCEPT !["close"] = @ + 1]
    /\ pc' = "close"
    /\ UNCHANGED <<run, awaiting, result, err, uncaught, playwright,
                   exitCode, fs, shots>>

\* except Exception as e: print(f"Error verifying documentation page: {e}");
\* the finally clause follows
ExceptHandler ==
    /\ pc = "except"
    /\ stdout' = Append(stdout, ErrorLine(err))
    /\ pc' = "close"
    /\ UNCHANGED <<run, awaiting, calls, result, err, uncaught, playwright,
                   exitCode, fs, shots>>

\* finally: await browser.close(); an exception raised here is outside the
\* except clause and leaves verify_docs
CloseDone ==
    /\ pc = "close"
    /\ awaiting
    /\ \E r \in Outcomes :
        /\ result' = [result EXCEPT !["close"] = r]
        /\ uncaught' = IF r = "ok" THEN uncaught ELSE r
    /\ pc' = "aexit"
    /\ awaiting' = FALSE
    /\ UNCHANGED <<run, calls, err, playwright, stdout, exitCode, fs, shots>>

\* leaving `async with async_playwright() as p`, normally or by exception
PlaywrightExit ==
    /\ pc = "aexit"
    /\ playwright' = "stopped"
    /\ pc' = "return"
    /\ UNCHANGED <<run, awaiting, calls, result, err, uncaught, stdout,
                   exitCode, fs, shots>>

\* asyncio.run(verify_docs()) returns, or re-raises what verify_docs raised
\* and the interpreter ends with a traceback and status 1
ProcessExit ==
    /\ pc = "return"
    /\ exitCode' = IF uncaught = "none" THEN 0 ELSE 1
    /\ pc' = "exited"
    /\ UNCHANGED <<run, awaiting, calls, result, err, uncaught, playwright,
                   stdout, fs, shots>>

\* the program is started again; only the disk survives the process
Rerun ==
    /\ pc = "exited"
    /\ run < MaxRuns
    /\ run' = run + 1
    /\ pc' = "start"
    /\ awaiting' = FALSE
    /\ calls' = NoCalls
    /\ result' = NoResults
    /\ err' = "none"
    /\ uncaught' = "none"
    /\ playwright' = "none"
    /\ stdout' = <<>>
    /\ exitCode' = -1
    /\ UNCHANGED <<fs, shots>>

Next ==
    \/ \E s \in AwaitSteps : Await(s)
    \/ StartDone
    \/ LaunchDone
    \/ NewPageDone
    \/ GotoDone
    \/ WaitDone
    \/ ScreenshotDone
    \/ PrintSuccess
    \/ ExceptHandler
    \/ CloseDone
    \/ PlaywrightExit
    \/ ProcessExit
    \/ Rerun

Spec == Init /\ [][Next]_vars

----
TypeOK ==
    /\ run \in 1..MaxRuns
    /\ pc \in AwaitSteps \cup {"print_ok", "except", "aexit", "return", "exited"}
    /\ awaiting \in BOOLEAN
    /\ \A s \in AwaitSteps : calls[s] \in 0..2 /\ result[s] \in {"none"} \cup Outcomes
    /\ err \in {"none"} \cup Errors
    /\ uncaught \in {"none"} \cup Errors
    /\ playwright \in {"none", "active", "stopped"}
    /\ Len(stdout) <= 2
    /\ exitCode \in {-1, 0, 1}
    /\ shots \subseteq 1..MaxRuns

Printed(line) == \E i \in 1..Len(stdout) : stdout[i] = line

\* the run went through navigation, heading wait and screenshot without error
SuccessBranch ==
    /\ result["goto"] = "ok"
    /\ result["wait_for_selector"] = "ok"
    /\ result["screenshot"] = "ok"

\* the heading never appeared: navigation succeeded, the wait raised
TimeoutBranch ==
    /\ result["goto"] = "ok"
    /\ result["wait_for_selector"] \in Errors

\* the navigation itself raised
NavigationErrorBranch == result["goto"] \in Errors

----
\* C1: once chromium.launch has returned the browser, browser.close has been
\* called by the time the run ends, whichever later step failed (opening the
\* page, navigation, heading wait, screenshot).
C1_ReleasedOnEveryExit ==
    (pc = "exited" /\ result["launch"] = "ok") => calls["close"] >= 1

\* C2: a failure of new_page, goto or wait_for_selector is caught, its detail
\* is printed in the error line, and the screenshot step is not executed.
C2_Steps2To4Caught ==
    \A s \in {"new_page", "goto", "wait_for_selector"} :
        (pc = "exited" /\ result[s] \in Errors) =>
            /\ err = result[s]
            /\ stdout = <<ErrorLine(result[s])>>
            /\ calls["screenshot"] = 0

\* C3: in the success, heading-timeout and navigation-error branches the
\* number of browser.close calls at the end of the run is exactly 1.
C3_ReleasedExactlyOnce ==
    (pc = "exited" /\ (SuccessBranch \/ TimeoutBranch \/ NavigationErrorBranch))
        => calls["close"] = 1

C3_Witness ==
    /\ pc = "exited"
    /\ TimeoutBranch
    /\ calls["close"] = 1

\* C4: the screenshot step is invoked, and the file written by this run, only
\* if navigation and heading wait both completed without error; a timeout or
\* a navigation error leaves no screenshot from this run.
C4_NoScreenshotOnFailure ==
    /\ (calls["screenshot"] > 0 \/ run \in shots) =>
            (result["goto"] = "ok" /\ result["wait_for_selector"] = "ok")
    /\ (TimeoutBranch \/ NavigationErrorBranch) =>
            (calls["screenshot"] = 0 /\ run \notin shots)

C4_Witness ==
    /\ pc = "exited"
    /\ NavigationErrorBranch
    /\ calls["screenshot"] = 0
    /\ DOMAIN fs = {}

\* C5: every run that has ended wrote exactly one line to standard output.
C5_ExactlyOneLine ==
    pc = "exited" => Len(stdout) = 1

\* C6: every run ends with exit status 0; no exception leaves verify_docs.
C6_AlwaysExitsZero ==
    pc = "exited" => (exitCode = 0 /\ uncaught = "none")

\* C7: when navigation, heading wait and screenshot all succeed, browser.close
\* is called only once the file is written and the success line printed, and
\* the run ends with the file, the success line and the browser released.
C7_CloseAfterSuccessOutput ==
    /\ (SuccessBranch /\ calls["close"] > 0) =>
            /\ ScreenshotPath \in DOMAIN fs
            /\ fs[ScreenshotPath] = run
            /\ stdout = <<SuccessLine>>
    /\ (SuccessBranch /\ pc = "exited") => calls["close"] = 1

C7_Witness ==
    /\ pc = "exited"
    /\ SuccessBranch
    /\ calls["close"] = 1
    /\ stdout = <<SuccessLine>>

\* C8: after any number of runs the disk holds no file other than
\* docs_screenshot.png, and a run that succeeds leaves exactly that one file,
\* written by itself (a second success overwrites the first).
C8_SingleFixedPath ==
    /\ DOMAIN fs \subseteq {"docs_screenshot.png"}
    /\ Cardinality(DOMAIN fs) <= 1
    /\ shots # {} => DOMAIN fs = {"docs_screenshot.png"}
    /\ run \in shots => fs = [p \in {"docs_screenshot.png"} |-> run]

C8_Witness ==
    /\ {1, 2} \subseteq shots
    /\ pc = "exited"
    /\ DOMAIN fs = {"docs_screenshot.png"}

\* C9: the steps run in source order, each at most once, one at a time; a
\* step other than close starts only after every earlier step has succeeded,
\* and close starts only after every earlier step that was started has
\* finished.
C9_StrictOrderNoRetry ==
    /\ \A s \in AwaitSteps : calls[s] <= 1
    /\ Cardinality({s \in AwaitSteps : calls[s] > 0 /\ result[s] = "none"}) <= 1
    /\ \A s \in AwaitSteps : result[s] # "none" => calls[s] > 0
    /\ \A s, t \in AwaitSteps :
        (Ord(s) < Ord(t) /\ calls[t] > 0) =>
            IF t = "close"
            THEN calls[s] > 0 => result[s] # "none"
            ELSE result[s] = "ok"

C9_Witness ==
    /\ pc = "exited"
    /\ \A s \in AwaitSteps : calls[s] = 1 /\ result[s] = "ok"

\* C10: the success line is printed only in a run whose screenshot step
\* succeeded; when the screenshot step fails the run prints the error line
\* with that failure's detail and still calls browser.close.
C10_NoSuccessLineOnScreenshotFailure ==
    /\ Printed(SuccessLine) => result["screenshot"] = "ok"
    /\ (pc = "exited" /\ result["screenshot"] \in Errors) =>
            /\ stdout = <<ErrorLine(result["screenshot"])>>
            /\ calls["close"] = 1

C10_Witness ==
    /\ pc = "exited"
    /\ result["screenshot"] = "TimeoutError"
    /\ stdout = <<ErrorLine("TimeoutError")>>
    /\ calls["close"] = 1
====
